---- MODULE Spec2Model ----
(***************************************************************************)
(* OTA firmware update pipeline: FirmwareVersionManager (catalog),         *)
(* FirmwareVerifier, FirmwareDownloader (URL cache, fetch with progress)   *)
(* and OtaManager (per-device update sessions).                            *)
(*                                                                         *)
(* JavaScript runs one task at a time; an async function runs without      *)
(* interruption up to its next await.  Each action below is the code       *)
(* between two awaits of one call, or a whole synchronous method.          *)
(* Session records are JavaScript objects: the updates Map holds           *)
(* references, and a downloadFirmware call keeps the reference it read at  *)
(* its start, so the model has a heap of session objects.                  *)
(***************************************************************************)
EXTENDS Integers, Sequences, FiniteSets, TLC

(***************************************************************************)
(* Bounds of the model.                                                    *)
(***************************************************************************)
\* operations the callers start in one run (registerVersion, checkForUpdate,
\* downloadFirmware, performUpdate, cancelUpdate, clearUpdate, clearCache)
MaxOps == 2

\* segments of a version string given to compareVersions
MaxSegments == 3
\* the numbers its segments are drawn from
SegmentValues == {0, 1}

\* entries of the catalog when its methods are called on their own
MaxVersions == 3

\* bytes of a buffer given to the verifier on its own
MaxBytes == 2

Devices == {"d1", "d2"}
Urls == {"u1", "u2"}
\* call slots: calls in flight at the same time
Slots == {1, 2}
\* session objects alive at the same time: one per Map entry, one per call,
\* and the one being created
Objs == 1 .. (Cardinality(Devices) + Cardinality(Slots) + 2)

(***************************************************************************)
(* Values.                                                                 *)
(***************************************************************************)
\* an optional number that is undefined
Undefined == -1
\* Number(x) of a string that is not numeric
NaN == -2
\* an optional string that is undefined or ''
NoString == ""
\* an optional version string / message that is undefined
NoVersion == << >>
NoError == << >>
NoDate == "unset"
SomeDate == "date"

\* A version string is the sequence of its '.'-separated segments; a segment
\* is its leading decimal number and the text that follows it.
Seg(n) == [digits |-> n, rest |-> ""]
V3(a, b, c) == << Seg(a), Seg(b), Seg(c) >>
\* the string '' : one empty segment
EmptyString == << [digits |-> Undefined, rest |-> ""] >>

\* Number(segment): '' is 0, decimal digits are their value, anything else NaN
ToNumber(seg) ==
    IF seg.rest # "" THEN NaN
    ELSE IF seg.digits = Undefined THEN 0
    ELSE seg.digits

\* x || 0 for a number x: NaN, 0 and undefined are falsy
OrZero(x) == IF x = NaN \/ x = Undefined THEN 0 ELSE x

Min(a, b) == IF a <= b THEN a ELSE b

Max(a, b) == IF a >= b THEN a ELSE b

\* v1Parts[i] || 0, an index past the end reads undefined
PartAt(v, i) == IF i <= Len(v) THEN OrZero(ToNumber(v[i])) ELSE 0

CompareFromGreaterOrEqual(v1, v2, i, maxLength) ==
    IF i > maxLength THEN 0
    ELSE IF PartAt(v1, i) >= PartAt(v2, i) THEN 1
    ELSE -1

RECURSIVE CompareFrom(_, _, _, _)
CompareFrom(v1, v2, i, maxLength) ==
    IF i > maxLength THEN 0
    ELSE IF PartAt(v1, i) > PartAt(v2, i) THEN 1
    ELSE IF PartAt(v1, i) < PartAt(v2, i) THEN -1
    ELSE CompareFrom(v1, v2, i + 1, maxLength)

compareVersions(version1, version2) ==
    CompareFrom(version1, version2, 1, Max(Len(version1), Len(version2)))

(***************************************************************************)
(* FirmwareVerifier.                                                       *)
(***************************************************************************)
\* A hex digest: the algorithm and the bytes it was computed over (the hash
\* is taken to be collision free), in lower or upper case; "text" is a string
\* that is no digest of anything.
HexLength(checksum) ==
    IF checksum.alg = "md5" THEN 32
    ELSE IF checksum.alg = "sha256" THEN 64
    ELSE 13

calculateChecksum(data, algorithm) ==
    [alg |-> algorithm, of |-> data, upper |-> FALSE]

KeepCase(checksum) == checksum

toLowerCase(checksum) == [checksum EXCEPT !.upper = FALSE]

\* the same digest written with upper-case hex digits
toUpperCase(checksum) == [checksum EXCEPT !.upper = TRUE]

verifyChecksum(data, expectedChecksum) ==
    LET algorithm == IF HexLength(expectedChecksum) = 32 THEN "md5" ELSE "sha256"
        calculatedChecksum == calculateChecksum(data, algorithm)
    IN  toLowerCase(calculatedChecksum) = toLowerCase(expectedChecksum)

\* the characters of /^[A-Za-z0-9+\/=]+$/ that the model's signatures use
Base64Alphabet == {"A", "b", "0", "+", "/", "="}

\* a signature is the sequence of its characters
isValidSignatureFormat(signature) ==
    /\ Len(signature) > 0
    /\ \A i \in 1 .. Len(signature) : signature[i] \in Base64Alphabet

\* verifyIntegrity calls verifySignature without a public key
verifySignatureNoKey(data, signature) == isValidSignatureFormat(signature)

\* verifySignature: without a public key (undefined or '') the format of the
\* signature is checked; with one, the data is fed to a verifier object and
\* true is returned: neither the key nor the signature is looked at
verifySignature(data, signature, publicKey) ==
    IF publicKey = NoString THEN isValidSignatureFormat(signature) ELSE TRUE

NoChecksum == [alg |-> "", of |-> << >>, upper |-> FALSE]
NoSignature == << >>

\* truthiness of the optional fields
HasFileSize(fw) == fw.fileSize # Undefined /\ fw.fileSize # 0
HasChecksum(fw) == fw.checksum # NoChecksum
HasSignature(fw) == fw.signature # NoSignature
HasFileUrl(fw) == fw.fileUrl # NoString

\* the error strings, in the order they are pushed (the sizes interpolated
\* into the first one are left out)
verifyIntegrityErrors(data, fw) ==
    (IF HasFileSize(fw) /\ Len(data) # fw.fileSize
        THEN << "File size mismatch" >> ELSE << >>)
    \o (IF HasChecksum(fw) /\ ~verifyChecksum(data, fw.checksum)
        THEN << "Checksum verification failed" >> ELSE << >>)
    \o (IF HasSignature(fw) /\ ~verifySignatureNoKey(data, fw.signature)
        THEN << "Signature verification failed" >> ELSE << >>)

verifyIntegrity(data, fw) ==
    LET errors == verifyIntegrityErrors(data, fw)
    IN  [valid |-> Len(errors) = 0, errors |-> errors]

JoinFirstOnly(errors) == IF Len(errors) = 0 THEN << >> ELSE << errors[1] >>

\* errors.join(', '): a message is the sequence of the strings it is built of
RECURSIVE Join(_)
Join(errors) ==
    IF Len(errors) = 0 THEN << >>
    ELSE IF Len(errors) = 1 THEN << errors[1] >>
    ELSE << errors[1], ", " >> \o Join(Tail(errors))

(***************************************************************************)
(* Data of the model: firmware records, version strings, response bodies.  *)
(***************************************************************************)
GoodBody == << 1, 2 >>
OtherBody == << 3 >>

NoFirmware ==
    [version |-> NoVersion, releaseDate |-> Undefined, fileSize |-> Undefined,
     fileUrl |-> NoString, checksum |-> NoChecksum, signature |-> NoSignature]

\* 1.0.1: size and SHA-256 of GoodBody declared
fwGood ==
    [version |-> V3(1, 0, 1), releaseDate |-> 2, fileSize |-> 2,
     fileUrl |-> "u1", checksum |-> calculateChecksum(GoodBody, "sha256"),
     signature |-> NoSignature]

\* 2.0.0, released earlier: a signature that is not base64, fileSize 0
fwSigned ==
    [version |-> V3(2, 0, 0), releaseDate |-> 1, fileSize |-> 0,
     fileUrl |-> "u2", checksum |-> NoChecksum,
     signature |-> << "A", "!" >>]

\* 1.1.0: no fileUrl, nothing to verify
fwNoUrl ==
    [version |-> V3(1, 1, 0), releaseDate |-> 2, fileSize |-> Undefined,
     fileUrl |-> NoString, checksum |-> NoChecksum, signature |-> NoSignature]

Firmwares == {fwGood, fwSigned, fwNoUrl}
CurrentVersions == {V3(1, 0, 0), V3(1, 0, 1)}

\* message of a fetch that fails before the response is read
FetchErrors == {<< "HTTP error! status: 500" >>}
\* message of a failed read of the response body
ReadError == << "terminated" >>

(***************************************************************************)
(* State.                                                                  *)
(***************************************************************************)
VARIABLES
    versions,       \* FirmwareVersionManager.versions: entries in insertion order
    downloadCache,  \* FirmwareDownloader.downloadCache
    updates,        \* OtaManager.updates: device -> session object (0: no entry)
    heap,           \* the session objects
    calls,          \* the downloadFirmware / performUpdate / download calls in flight
    fetches,        \* network fetches started, per URL
    ops,            \* operations started by the callers
    event,          \* what the last step returned or threw to its caller
    query           \* the last call of a component used on its own: arguments and result

vars == << versions, downloadCache, updates, heap, calls, fetches, ops, event, query >>

FreeObj ==
    [deviceId |-> "", currentVersion |-> NoVersion, targetVersion |-> NoVersion,
     status |-> "free", progress |-> Undefined, error |-> NoError,
     startedAt |-> NoDate, completedAt |-> NoDate]

\* timer: the timeout timer of fetchWithProgress; reports: what the onProgress
\* of a direct download call has been given (downloadFirmware passes its own
\* callback, which writes the session)
FreeCall ==
    [op |-> "", pc |-> "free", dev |-> "", cur |-> NoVersion, fw |-> NoFirmware,
     info |-> 0, total |-> 0, downloaded |-> 0, body |-> << >>,
     timer |-> "none", reports |-> << >>]

NotCached == [present |-> FALSE, data |-> << >>]

NoEvent ==
    [op |-> "", dev |-> "", kind |-> "none", msg |-> NoError,
     fw |-> NoFirmware, data |-> << >>]

Throws(op, d, msg) == [NoEvent EXCEPT !.op = op, !.dev = d, !.kind = "throw", !.msg = msg]
ReturnsFirmware(op, d, fw) == [NoEvent EXCEPT !.op = op, !.dev = d, !.kind = "return", !.fw = fw]
ReturnsData(op, d, data) == [NoEvent EXCEPT !.op = op, !.dev = d, !.kind = "return", !.data = data]
\* a Promise<void> that resolves
ReturnsVoid(op, d) == [NoEvent EXCEPT !.op = op, !.dev = d]

NoQuery == [op |-> "none"]

\* the objects as constructed
Constructed ==
    /\ versions = << >>
    /\ downloadCache = [u \in Urls |-> NotCached]
    /\ updates = [d \in Devices |-> 0]
    /\ heap = [o \in Objs |-> FreeObj]
    /\ calls = [c \in Slots |-> FreeCall]
    /\ fetches = [u \in Urls |-> 0]
    /\ ops = 0
    /\ event = NoEvent

Init ==
    /\ Constructed
    /\ query = NoQuery

\* the caller of getUpdateStatus holds the object it was given
HeldByCaller(o) == query.op = "getUpdateStatus" /\ query.ref = o

\* an object no Map entry, no call and no caller refers to is garbage
Collect(h, u, cs) ==
    [o \in Objs |->
        IF (\E d \in Devices : u[d] = o) \/ (\E c \in Slots : cs[c].info = o)
           \/ HeldByCaller(o)
        THEN h[o] ELSE FreeObj]

\* a new object takes the lowest free address
NewObj(h) == CHOOSE o \in Objs : h[o].status = "free" /\ \A p \in Objs : p < o => h[p].status # "free"

\* a new call takes the lowest free slot
FreeSlot(c) == calls[c].pc = "free" /\ \A b \in Slots : b < c => calls[b].pc # "free"

(***************************************************************************)
(* FirmwareVersionManager.                                                 *)
(***************************************************************************)
HasKey(vs, key) == \E i \in 1 .. Len(vs) : vs[i].key = key

MapSetAppends(vs, key, firmware) == Append(vs, [key |-> key, fw |-> firmware])

\* Map.set: a present key keeps its place and takes the new value
MapSet(vs, key, firmware) ==
    IF HasKey(vs, key)
    THEN [i \in 1 .. Len(vs) |-> IF vs[i].key = key THEN [key |-> key, fw |-> firmware] ELSE vs[i]]
    ELSE Append(vs, [key |-> key, fw |-> firmware])

getVersion(vs, key) ==
    IF HasKey(vs, key) THEN (CHOOSE e \in {vs[i] : i \in 1 .. Len(vs)} : e.key = key).fw
    ELSE NoFirmware

\* Array.from(this.versions.values()): the records in insertion order
getAllVersions(vs) == [i \in 1 .. Len(vs) |-> vs[i].fw]

getUpgradeableOrEqual(vs, currentVersion) ==
    SelectSeq(getAllVersions(vs),
              LAMBDA version : compareVersions(currentVersion, version.version) <= 0)

getUpgradeableVersions(vs, currentVersion) ==
    SelectSeq(getAllVersions(vs),
              LAMBDA version : compareVersions(currentVersion, version.version) < 0)

\* releaseDate?.getTime() || 0
DateOf(fw) == OrZero(fw.releaseDate)

\* the stable sort by descending date puts first the earliest entry of maximal date
getLatestVersion(vs) ==
    IF Len(vs) = 0 THEN NoFirmware
    ELSE LET first == CHOOSE i \in 1 .. Len(vs) :
                 /\ \A j \in 1 .. Len(vs) : DateOf(vs[j].fw) <= DateOf(vs[i].fw)
                 /\ \A j \in 1 .. (i - 1) : DateOf(vs[j].fw) < DateOf(vs[i].fw)
         IN  vs[first].fw

needsUpdateIgnoresTarget(vs, currentVersion, targetVersion) ==
    LET latest == getLatestVersion(vs)
    IN  IF latest = NoFirmware
        THEN [needsUpdate |-> FALSE, latestVersion |-> NoFirmware]
        ELSE [needsUpdate |-> compareVersions(currentVersion, latest.version) < 0,
              latestVersion |-> latest]

\* targetVersion is undefined (NoVersion) when the caller gives none
needsUpdate(vs, currentVersion, targetVersion) ==
    LET latest == IF targetVersion # NoVersion THEN getVersion(vs, targetVersion)
                  ELSE getLatestVersion(vs)
    IN  IF latest = NoFirmware
        THEN [needsUpdate |-> FALSE, latestVersion |-> NoFirmware]
        ELSE [needsUpdate |-> compareVersions(currentVersion, latest.version) < 0,
              latestVersion |-> latest]

RegisterVersion(fw) ==
    /\ versions' = MapSet(versions, fw.version, fw)
    /\ event' = NoEvent
    /\ UNCHANGED << downloadCache, updates, heap, calls, fetches >>

(***************************************************************************)
(* FirmwareDownloader.                                                     *)
(***************************************************************************)
\* Math.round((downloaded / total) * 100), total > 0
Percentage(downloaded, total) == (200 * downloaded + total) \div (2 * total)

\* the responses of the model: a body and the content-length header (0: none)
Responses ==
    {[body |-> GoodBody, total |-> 2],     \* the firmware, its length declared
     [body |-> GoodBody, total |-> 1],     \* content-length below the bytes read
     [body |-> OtherBody, total |-> 0]}    \* other bytes, no content-length

\* download() wraps every failure of the fetch
DownloadFailed(msg) == << "Firmware download failed: " >> \o msg

CacheGetMiss(url) == NotCached

\* this.downloadCache.get(url)
CacheGet(url) == downloadCache[url]

ClearCache ==
    /\ downloadCache' = [u \in Urls |-> NotCached]
    /\ event' = NoEvent
    /\ UNCHANGED << versions, updates, heap, calls, fetches >>

(***************************************************************************)
(* OtaManager.                                                             *)
(***************************************************************************)
getUpdateStatus(d) == IF updates[d] = 0 THEN FreeObj ELSE heap[updates[d]]

\* the session object checkForUpdate builds and stores first
CheckingInfo(d, currentVersion) ==
    [FreeObj EXCEPT !.deviceId = d,
                    !.currentVersion = currentVersion,
                    !.status = "checking",
                    !.startedAt = SomeDate]

CheckedInfoStaysChecking(d, currentVersion) == CheckingInfo(d, currentVersion)

CheckedInfoAlwaysTargets(d, currentVersion) ==
    LET result == needsUpdate(versions, currentVersion, NoVersion)
    IN  [CheckingInfo(d, currentVersion) EXCEPT
            !.status = "idle", !.targetVersion = result.latestVersion.version]

\* the session object checkForUpdate builds, as it is when the call returns
CheckedInfo(d, currentVersion) ==
    LET result == needsUpdate(versions, currentVersion, NoVersion)
        updateInfo == CheckingInfo(d, currentVersion)
    IN  IF result.needsUpdate /\ result.latestVersion # NoFirmware
        THEN [updateInfo EXCEPT !.status = "idle",
                                !.targetVersion = result.latestVersion.version]
        ELSE [updateInfo EXCEPT !.status = "idle"]

\* checkForUpdate has no await: it runs as one step.  needsUpdate does not
\* throw, so the catch of checkForUpdate is never entered.
CheckForUpdate(d, currentVersion) ==
    LET o == NewObj(heap)
        u2 == [updates EXCEPT ![d] = o]
    IN  /\ updates' = u2
        /\ heap' = Collect([heap EXCEPT ![o] = CheckedInfo(d, currentVersion)], u2, calls)
        /\ event' = ReturnsFirmware("checkForUpdate", d,
                                    needsUpdate(versions, currentVersion, NoVersion).latestVersion)
        /\ UNCHANGED << versions, downloadCache, calls, fetches >>

\* downloadFirmware up to its first await, as call c of operation op
DownloadFirmwareBegin(c, op, d, cur, fw) ==
    LET o == IF updates[d] # 0 THEN updates[d] ELSE NewObj(heap)
        found == IF updates[d] # 0 THEN heap[o]
                 ELSE [FreeObj EXCEPT !.deviceId = d,
                                      !.currentVersion = EmptyString,
                                      !.status = "idle"]
        updateInfo == [found EXCEPT !.status = "downloading",
                                    !.progress = 0,
                                    !.targetVersion = fw.version]
        u2 == [updates EXCEPT ![d] = o]
        call == [FreeCall EXCEPT !.op = op, !.dev = d, !.cur = cur, !.fw = fw, !.info = o]
    IN  /\ updates' = u2
        /\ IF ~HasFileUrl(fw)
           THEN /\ calls' = [calls EXCEPT ![c] = FreeCall]
                /\ heap' = Collect([heap EXCEPT ![o] = updateInfo], u2, calls')
                /\ event' = Throws(op, d, << "Firmware file URL is not specified" >>)
                /\ UNCHANGED << downloadCache, fetches >>
           ELSE IF CacheGet(fw.fileUrl).present
           THEN \* cache hit: onProgress(100) and the cached buffer
                /\ calls' = [calls EXCEPT ![c] =
                       [call EXCEPT !.pc = "downloaded",
                                    !.body = CacheGet(fw.fileUrl).data]]
                /\ heap' = Collect([heap EXCEPT ![o] = [updateInfo EXCEPT !.progress = 100]],
                                   u2, calls')
                /\ event' = NoEvent
                /\ UNCHANGED << downloadCache, fetches >>
           ELSE \* cache miss: fetch(url) is sent
                /\ fetches' = [fetches EXCEPT ![fw.fileUrl] = @ + 1]
                /\ calls' = [calls EXCEPT ![c] = [call EXCEPT !.pc = "fetching",
                                                              !.timer = "armed"]]
                /\ heap' = Collect([heap EXCEPT ![o] = updateInfo], u2, calls')
                /\ event' = NoEvent
                /\ UNCHANGED downloadCache
        /\ UNCHANGED versions

DownloadFirmware(c, d, fw) ==
    /\ FreeSlot(c)
    /\ DownloadFirmwareBegin(c, "downloadFirmware", d, NoVersion, fw)

\* performUpdate up to its await of checkForUpdate
PerformUpdate(c, d, currentVersion) ==
    LET o == NewObj(heap)
        u2 == [updates EXCEPT ![d] = o]
    IN  /\ FreeSlot(c)
        /\ updates' = u2
        /\ calls' = [calls EXCEPT ![c] =
               [FreeCall EXCEPT !.op = "performUpdate", !.pc = "checked", !.dev = d,
                                !.cur = currentVersion,
                                !.fw = needsUpdate(versions, currentVersion, NoVersion).latestVersion]]
        /\ heap' = Collect([heap EXCEPT ![o] = CheckedInfo(d, currentVersion)], u2, calls')
        /\ event' = NoEvent
        /\ UNCHANGED << versions, downloadCache, fetches >>

\* performUpdate after checkForUpdate returned latestVersion
PerformUpdateContinue(c) ==
    /\ calls[c].pc = "checked"
    /\ IF calls[c].fw = NoFirmware
       THEN /\ calls' = [calls EXCEPT ![c] = FreeCall]
            /\ event' = Throws("performUpdate", calls[c].dev, << "No update available" >>)
            /\ UNCHANGED << versions, downloadCache, updates, heap, fetches >>
       ELSE DownloadFirmwareBegin(c, "performUpdate", calls[c].dev, calls[c].cur, calls[c].fw)

\* the response headers arrive: the timeout timer is cleared; status ok, a
\* body to read
FetchResponse(c, body, total) ==
    /\ calls[c].pc = "fetching"
    /\ calls' = [calls EXCEPT ![c] = [@ EXCEPT !.pc = "reading", !.body = body,
                                               !.total = total, !.downloaded = 0,
                                               !.timer = "cleared"]]
    /\ event' = NoEvent
    /\ UNCHANGED << versions, downloadCache, updates, heap, fetches >>

\* reader.read() yields a chunk of k bytes; onProgress writes the session
ReadChunk(c, k) ==
    LET call == calls[c]
        downloaded == call.downloaded + k
    IN  /\ call.pc = "reading"
        /\ downloaded <= Len(call.body)
        /\ calls' = [calls EXCEPT ![c] = [@ EXCEPT !.downloaded = downloaded]]
        /\ IF call.total > 0
           THEN /\ updates' = [updates EXCEPT ![call.dev] = call.info]
                /\ heap' = Collect([heap EXCEPT ![call.info] =
                               [@ EXCEPT !.progress = Percentage(downloaded, call.total)]],
                               updates', calls')
           ELSE UNCHANGED << updates, heap >>
        /\ event' = NoEvent
        /\ UNCHANGED << versions, downloadCache, fetches >>

\* reader.read() yields done: the buffer is cached and download() returns
FetchComplete(c) ==
    /\ calls[c].pc = "reading"
    /\ calls[c].downloaded = Len(calls[c].body)
    /\ downloadCache' = [downloadCache EXCEPT ![calls[c].fw.fileUrl] =
                             [present |-> TRUE, data |-> calls[c].body]]
    /\ calls' = [calls EXCEPT ![c] = [@ EXCEPT !.pc = "downloaded"]]
    /\ event' = NoEvent
    /\ UNCHANGED << versions, updates, heap, fetches >>

CatchAndRetry(c, msg) ==
    /\ calls' = [calls EXCEPT ![c] = [@ EXCEPT !.pc = "fetching", !.timer = "armed"]]
    /\ event' = NoEvent
    /\ UNCHANGED << updates, heap >>

\* downloadFirmware's catch: the session is failed with the message and the
\* error is thrown on
CatchAndThrow(c, msg) ==
    LET call == calls[c]
    IN  /\ updates' = [updates EXCEPT ![call.dev] = call.info]
        /\ calls' = [calls EXCEPT ![c] = FreeCall]
        /\ heap' = Collect([heap EXCEPT ![call.info] =
                       [@ EXCEPT !.status = "failed", !.error = msg]], updates', calls')
        /\ event' = Throws(call.op, call.dev, msg)

\* the fetch fails (network error, HTTP status, timeout) or a read fails
FetchFail(c, msg) ==
    /\ \/ calls[c].pc = "fetching" /\ msg \in FetchErrors
       \/ calls[c].pc = "reading" /\ msg = ReadError
    /\ CatchAndThrow(c, DownloadFailed(msg))
    /\ UNCHANGED << versions, downloadCache, fetches >>

BeginVerifyKeepsProgress(c) ==
    LET call == calls[c]
    IN  /\ call.pc = "downloaded"
        /\ updates' = [updates EXCEPT ![call.dev] = call.info]
        /\ calls' = [calls EXCEPT ![c] = [@ EXCEPT !.pc = "verifying"]]
        /\ heap' = Collect([heap EXCEPT ![call.info] = [@ EXCEPT !.status = "verifying"]],
                           updates', calls')
        /\ event' = NoEvent
        /\ UNCHANGED << versions, downloadCache, fetches >>

\* download() has returned: the Verifying checkpoint, verifyIntegrity is called
BeginVerify(c) ==
    LET call == calls[c]
    IN  /\ call.pc = "downloaded"
        /\ updates' = [updates EXCEPT ![call.dev] = call.info]
        /\ calls' = [calls EXCEPT ![c] = [@ EXCEPT !.pc = "verifying"]]
        /\ heap' = Collect([heap EXCEPT ![call.info] =
                       [@ EXCEPT !.status = "verifying", !.progress = 90]], updates', calls')
        /\ event' = NoEvent
        /\ UNCHANGED << versions, downloadCache, fetches >>

AcceptsAnything(verification) == TRUE

\* if (!verification.valid) throw: whether downloadFirmware goes on to Completed
Accepts(verification) == verification.valid

\* verifyIntegrity has returned
FinishVerify(c) ==
    LET call == calls[c]
        verification == verifyIntegrity(call.body, call.fw)
    IN  /\ call.pc = "verifying"
        /\ IF ~Accepts(verification)
           THEN \* the inner write of the joined errors is overwritten by the catch
                CatchAndThrow(c, << "Firmware verification failed: " >>
                                    \o Join(verification.errors))
           ELSE /\ updates' = [updates EXCEPT ![call.dev] = call.info]
                /\ calls' = [calls EXCEPT ![c] = FreeCall]
                /\ heap' = Collect([heap EXCEPT ![call.info] =
                               [@ EXCEPT !.status = "completed", !.progress = 100,
                                         !.completedAt = SomeDate]], updates', calls')
                /\ event' = ReturnsData(call.op, call.dev, call.body)
        /\ UNCHANGED << versions, downloadCache, fetches >>

CancellableAlways(status) == TRUE

CancellableInProgress(status) == status \in {"downloading", "verifying"}

\* updateInfo.status === OtaUpdateStatus.Downloading
Cancellable(status) == status = "downloading"

\* cancelUpdate with downloadFirmware's get-or-default of the session
CancelUpdateCreates(d) ==
    LET o == IF updates[d] # 0 THEN updates[d] ELSE NewObj(heap)
        found == IF updates[d] # 0 THEN heap[o]
                 ELSE [FreeObj EXCEPT !.deviceId = d,
                                      !.currentVersion = EmptyString,
                                      !.status = "idle"]
    IN  /\ updates' = [updates EXCEPT ![d] = o]
        /\ heap' = [heap EXCEPT ![o] =
               IF Cancellable(found.status)
               THEN [found EXCEPT !.status = "failed",
                                  !.error = << "Update cancelled by user" >>]
               ELSE found]
        /\ event' = ReturnsVoid("cancelUpdate", d)
        /\ UNCHANGED << versions, downloadCache, calls, fetches >>

CancelUpdateAll(d) ==
    /\ heap' = [o \in Objs |->
                   IF (\E e \in Devices : updates[e] = o) /\ Cancellable(heap[o].status)
                   THEN [heap[o] EXCEPT !.status = "failed",
                                        !.error = << "Update cancelled by user" >>]
                   ELSE heap[o]]
    /\ event' = ReturnsVoid("cancelUpdate", d)
    /\ UNCHANGED << versions, downloadCache, updates, calls, fetches >>

CancelUpdate(d) ==
    /\ IF updates[d] # 0 /\ Cancellable(heap[updates[d]].status)
       THEN heap' = [heap EXCEPT ![updates[d]] =
                        [@ EXCEPT !.status = "failed",
                                  !.error = << "Update cancelled by user" >>]]
       ELSE UNCHANGED heap
    /\ event' = ReturnsVoid("cancelUpdate", d)
    /\ UNCHANGED << versions, downloadCache, updates, calls, fetches >>

ClearUpdate(d) ==
    /\ updates' = [updates EXCEPT ![d] = 0]
    /\ heap' = Collect(heap, updates', calls)
    /\ event' = NoEvent
    /\ UNCHANGED << versions, downloadCache, calls, fetches >>

\* a caller starts an operation
Started == ops < MaxOps /\ ops' = ops + 1 /\ UNCHANGED query

\* a call in flight takes its next step
Continues == UNCHANGED << ops, query >>

Next ==
    \/ \E fw \in Firmwares : Started /\ RegisterVersion(fw)
    \/ \E d \in Devices, v \in CurrentVersions : Started /\ CheckForUpdate(d, v)
    \/ \E c \in Slots, d \in Devices, fw \in Firmwares : Started /\ DownloadFirmware(c, d, fw)
    \/ \E c \in Slots, d \in Devices, v \in CurrentVersions : Started /\ PerformUpdate(c, d, v)
    \/ \E d \in Devices : Started /\ CancelUpdate(d)
    \/ \E d \in Devices : Started /\ ClearUpdate(d)
    \/ Started /\ ClearCache
    \/ \E c \in Slots : PerformUpdateContinue(c) /\ Continues
    \/ \E c \in Slots, r \in Responses : FetchResponse(c, r.body, r.total) /\ Continues
    \/ \E c \in Slots : ReadChunk(c, 1) /\ Continues
    \/ \E c \in Slots : FetchComplete(c) /\ Continues
    \/ \E c \in Slots, msg \in FetchErrors \cup {ReadError} : FetchFail(c, msg) /\ Continues
    \/ \E c \in Slots : BeginVerify(c) /\ Continues
    \/ \E c \in Slots : FinishVerify(c) /\ Continues

Spec == Init /\ [][Next]_vars

(***************************************************************************)
(* Properties.                                                             *)
(***************************************************************************)
InFlight == {"fetching", "reading", "downloaded", "verifying"}

\* the session getUpdateStatus(d) would return in the state (u, h)
SessionIn(u, h, d) == IF u[d] = 0 THEN FreeObj ELSE h[u[d]]

\* C1: a session object becomes Completed only in the step in which a
\* downloadFirmware run for that device gets a verifyIntegrity result without
\* errors for the bytes it downloaded and its own version record, and bytes
\* are returned to a caller only in such a step (they are those bytes).
C1_CompletedOnlyVerified ==
    [][/\ \A o \in Objs :
            (heap'[o].status = "completed" /\ heap[o].status # "completed") =>
                \E c \in Slots :
                    /\ calls[c].pc = "verifying" /\ calls'[c].pc = "free"
                    /\ calls[c].info = o /\ calls[c].dev = heap'[o].deviceId
                    /\ Len(verifyIntegrityErrors(calls[c].body, calls[c].fw)) = 0
       /\ (event'.kind = "return" /\ event'.op \in {"downloadFirmware", "performUpdate"}) =>
                \E c \in Slots :
                    /\ calls[c].pc = "verifying" /\ calls'[c].pc = "free"
                    /\ calls[c].dev = event'.dev /\ calls[c].body = event'.data
                    /\ Len(verifyIntegrityErrors(calls[c].body, calls[c].fw)) = 0
                    /\ SessionIn(updates', heap', event'.dev).status = "completed"
      ]_vars

\* a device's session is Completed and the verified bytes were just returned
C1_Witness ==
    \E d \in Devices :
        /\ updates[d] # 0 /\ heap[updates[d]].status = "completed"
        /\ event.kind = "return" /\ event.op = "downloadFirmware"
        /\ event.dev = d /\ event.data = GoodBody

\* C2: a performUpdate call is downloading only if the version it resolved is
\* strictly greater than the currentVersion it was called with.
C2_DownloadOnlyIfNewer ==
    \A c \in Slots :
        (calls[c].op = "performUpdate" /\ calls[c].pc \in InFlight) =>
            compareVersions(calls[c].cur, calls[c].fw.version) < 0

\* a new call on device d begins in this step: a downloadFirmware or
\* performUpdate call that takes a slot, the downloadFirmware call made by a
\* performUpdate, or a call that returns or throws before its first await
StartsCallFor(d) ==
    \/ \E c \in Slots : calls[c].pc = "free" /\ calls'[c].pc # "free" /\ calls'[c].dev = d
    \/ \E c \in Slots : calls[c].pc = "checked" /\ calls[c].dev = d /\ calls'[c] # calls[c]
    \/ calls' = calls /\ event'.kind # "none" /\ event'.dev = d

\* a downloadFirmware run on device d that is already in flight takes this step
RunsOn(d) ==
    \E c \in Slots : calls[c].pc \in InFlight /\ calls[c].dev = d /\ calls'[c] # calls[c]

\* position in the order Idle, Checking, Downloading, Verifying, Installing, Completed
Rank(status) ==
    CASE status = "idle" -> 0
      [] status = "checking" -> 1
      [] status = "downloading" -> 2
      [] status = "verifying" -> 3
      [] status = "installing" -> 4
      [] status = "completed" -> 5
      [] OTHER -> 6

ForwardOrFailed(s, t) ==
    /\ s \notin {"failed", "completed"}
    /\ t = "failed" \/ Rank(t) > Rank(s)

\* C3 as claimed: every change of a device session's status moves forward in
\* the order or to Failed from a non-terminal status.
C3_OnlyForward ==
    [][\A d \in Devices :
          LET s == SessionIn(updates, heap, d).status
              t == SessionIn(updates', heap', d).status
          IN  (updates[d] # 0 /\ updates'[d] # 0 /\ s # t) => ForwardOrFailed(s, t)
      ]_vars

\* C3 amended: a change of a device session's status moves forward or to
\* Failed from a non-terminal status, or is a restart by a new call (to Idle
\* or Downloading), or is a write of a downloadFirmware run already in flight
\* (to Downloading, Verifying, Completed or Failed); none moves to Checking
\* or Installing.
C3_ForwardRestartOrRun ==
    [][\A d \in Devices :
          LET s == SessionIn(updates, heap, d).status
              t == SessionIn(updates', heap', d).status
          IN  (updates[d] # 0 /\ updates'[d] # 0 /\ s # t) =>
                /\ t \notin {"checking", "installing"}
                /\ \/ ForwardOrFailed(s, t)
                   \/ StartsCallFor(d) /\ t \in {"idle", "downloading"}
                   \/ RunsOn(d) /\ t \in {"downloading", "verifying", "completed", "failed"}
      ]_vars

\* a Completed session has just been restarted by a new downloadFirmware call
C3_Witness ==
    \E d \in Devices, c \in Slots :
        /\ updates[d] # 0 /\ heap[updates[d]].status = "downloading"
        /\ heap[updates[d]].completedAt = SomeDate
        /\ calls[c].pc = "fetching" /\ calls[c].dev = d

CancelledMessage == << "Update cancelled by user" >>

Cancelled(u, h, d) ==
    /\ u[d] # 0
    /\ h[u[d]].status = "failed"
    /\ h[u[d]].error = CancelledMessage

\* C4: once cancelUpdate has made a session Failed with the cancellation
\* message, a step of a downloadFirmware run that was in flight leaves the
\* session Failed and does not change its progress.
C4_CancelSticks ==
    [][\A d \in Devices :
          (Cancelled(updates, heap, d) /\ RunsOn(d)) =>
              /\ SessionIn(updates', heap', d).status = "failed"
              /\ SessionIn(updates', heap', d).progress = SessionIn(updates, heap, d).progress
      ]_vars

\* C5: after an operation has thrown, the device's session is Failed and its
\* error field is the thrown message.
C5_ThrowMirrored ==
    event.kind = "throw" =>
        /\ updates[event.dev] # 0
        /\ heap[updates[event.dev]].status = "failed"
        /\ heap[updates[event.dev]].error = event.msg

NoUrlMessage == << "Firmware file URL is not specified" >>

\* C6: a downloadFirmware call that throws for a missing fileUrl leaves the
\* device's session as it was before the call.
C6_NoUrlNoProgress ==
    [][(event'.kind = "throw" /\ event'.msg = NoUrlMessage) =>
          SessionIn(updates', heap', event'.dev) = SessionIn(updates, heap, event'.dev)
      ]_vars

\* C7: a step of a downloadFirmware run, with no other run on the device in
\* flight, never decreases the progress of the run's session.
C7_ProgressMonotone ==
    [][\A c \in Slots :
          (/\ calls[c].pc \in InFlight
           /\ calls'[c] # calls[c]
           /\ \A b \in Slots \ {c} : calls[b].dev # calls[c].dev) =>
              heap'[calls[c].info].progress >= heap[calls[c].info].progress
      ]_vars

\* C8 as claimed: the network fetch of a URL is performed at most once.
C8_AtMostOneFetch == \A u \in Urls : fetches[u] <= 1

\* C8 amended: a download call fetches only if the URL is not in the cache
\* when the call starts; a call that starts while it is cached never fetches.
C8_FetchOnlyOnMiss ==
    [][\A u \in Urls :
          fetches'[u] # fetches[u] =>
              ~downloadCache[u].present /\ fetches'[u] = fetches[u] + 1
      ]_vars

\* a call served from the cache (nothing read) after the one fetch of its URL
C8_Witness ==
    \E c \in Slots :
        /\ calls[c].pc = "downloaded"
        /\ calls[c].downloaded = 0 /\ calls[c].body = GoodBody
        /\ fetches[calls[c].fw.fileUrl] = 1
        /\ downloadCache[calls[c].fw.fileUrl].present

\* C9: a device without a session gets one only in a step that begins a new
\* checkForUpdate, downloadFirmware or performUpdate call for it.
C9_ClearedUntilNextCall ==
    [][\A d \in Devices :
          (updates[d] = 0 /\ updates'[d] # 0) => StartsCallFor(d)
      ]_vars

\* the step is a checkForUpdate on device d (called directly or by performUpdate)
ChecksFor(d) ==
    \/ event'.kind = "return" /\ event'.op = "checkForUpdate" /\ event'.dev = d
    \/ \E c \in Slots : calls[c].pc = "free" /\ calls'[c].pc = "checked" /\ calls'[c].dev = d

Steps(c) == calls'[c] # calls[c]

\* the session of call c's device is the one c works on, with status s
SessionOf(c, s) ==
    /\ updates[calls[c].dev] # 0
    /\ calls[c].info \in {0, updates[calls[c].dev]}
    /\ heap[updates[calls[c].dev]].status = s

\* C11: a performUpdate call whose resolved version is strictly greater than
\* currentVersion and has a fileUrl, and whose session no other operation has
\* touched, leaves the session Idle after its check (the record is first
\* stored as Checking in that same step), Downloading while it downloads,
\* Verifying after the download returned, and, if the downloaded bytes pass
\* verifyIntegrity, Completed with progress 100 and completedAt set, and
\* returns exactly those bytes.
C11_PerformUpdateCompletes ==
    [][\A c \in Slots :
          LET call == calls[c]
              d == call.dev
              after == SessionIn(updates', heap', calls'[c].dev)
              done == SessionIn(updates', heap', d)
          IN  /\ (call.pc = "free" /\ calls'[c].pc = "checked") =>
                    /\ CheckingInfo(calls'[c].dev, calls'[c].cur).status = "checking"
                    /\ after.status = "idle"
                    /\ after = [CheckingInfo(calls'[c].dev, calls'[c].cur) EXCEPT
                                    !.status = "idle",
                                    !.targetVersion = after.targetVersion]
              /\ (/\ call.op = "performUpdate" /\ Steps(c)
                  /\ call.pc = "checked" /\ SessionOf(c, "idle")
                  /\ call.fw # NoFirmware
                  /\ compareVersions(call.cur, call.fw.version) < 0
                  /\ HasFileUrl(call.fw)) =>
                    /\ calls'[c].pc \in {"fetching", "downloaded"}
                    /\ after.status = "downloading"
              /\ (/\ call.op = "performUpdate" /\ Steps(c)
                  /\ call.pc \in {"fetching", "reading"} /\ SessionOf(c, "downloading")
                  /\ calls'[c].pc # "free") =>
                    after.status = "downloading"
              /\ (/\ call.op = "performUpdate" /\ Steps(c)
                  /\ call.pc = "downloaded" /\ SessionOf(c, "downloading")) =>
                    after.status = "verifying"
              /\ (/\ call.op = "performUpdate" /\ Steps(c)
                  /\ call.pc = "verifying" /\ SessionOf(c, "verifying")
                  /\ Len(verifyIntegrityErrors(call.body, call.fw)) = 0) =>
                    /\ done.status = "completed"
                    /\ done.progress = 100
                    /\ done.completedAt = SomeDate
                    /\ event' = ReturnsData("performUpdate", d, call.body)
      ]_vars

\* performUpdate('d', '1.0.0') has returned the fetched bytes of 1.0.1
C11_Witness ==
    /\ event.kind = "return" /\ event.op = "performUpdate" /\ event.data = GoodBody
    /\ LET s == SessionIn(updates, heap, event.dev)
       IN  /\ s.status = "completed" /\ s.progress = 100 /\ s.completedAt = SomeDate
           /\ s.currentVersion = V3(1, 0, 0) /\ s.targetVersion = V3(1, 0, 1)

\* the strings of errs appear in msg in their order, separated by ', ', and
\* end the message
JoinedIn(errs, msg) ==
    LET n == Len(errs)
        k == Len(msg) - (2 * n - 1)
    IN  /\ n > 0 /\ k >= 0
        /\ \A i \in 1 .. n : msg[k + 2 * i - 1] = errs[i]
        /\ \A i \in 1 .. (n - 1) : msg[k + 2 * i] = ", "

\* C12: when verifyIntegrity reports the downloaded bytes invalid, the call
\* throws, the session is Failed, and its error field is one message that
\* holds every error string of the verifier, joined.
C12_InvalidFailsWithAllErrors ==
    [][\A c \in Slots :
          LET call == calls[c]
              verification == verifyIntegrity(call.body, call.fw)
              s == SessionIn(updates', heap', call.dev)
          IN  (call.pc = "verifying" /\ Steps(c) /\ ~verification.valid) =>
                /\ event'.kind = "throw" /\ event'.op = call.op /\ event'.dev = call.dev
                /\ calls'[c].pc = "free"
                /\ s.status = "failed"
                /\ JoinedIn(verification.errors, s.error)
      ]_vars

\* bytes with a wrong size and a wrong checksum have failed verification
C12_Witness ==
    \E d \in Devices :
        LET s == SessionIn(updates, heap, d)
        IN  /\ s.status = "failed"
            /\ event.kind = "throw" /\ event.dev = d
            /\ \E i, j \in 1 .. Len(s.error) :
                   /\ i < j
                   /\ s.error[i] = "File size mismatch"
                   /\ s.error[j] = "Checksum verification failed"

\* C13: a cancelUpdate(d) call made when d has no session, or a session
\* whose status is not Downloading, changes nothing: no session is created
\* and no field of any session changes.
C13_CancelElseNothing ==
    [][\A d \in Devices :
          (/\ ops' = ops + 1
           /\ event'.op = "cancelUpdate" /\ event'.dev = d
           /\ SessionIn(updates, heap, d).status # "downloading") =>
              UNCHANGED << versions, downloadCache, updates, heap, calls, fetches >>
      ]_vars

\* cancelUpdate was called on a Completed session, which is still Completed
C13_Witness ==
    /\ event.op = "cancelUpdate"
    /\ SessionIn(updates, heap, event.dev).status = "completed"

\* C14: checkForUpdate(d, v) leaves d's session Idle with currentVersion v,
\* with targetVersion the latest version's identifier if that version is
\* strictly greater than v and unset otherwise, and returns the catalog's
\* latest record (none on an empty catalog).
C14_CheckForUpdateResult ==
    [][\A d \in Devices, v \in CurrentVersions :
          (event'.op = "checkForUpdate" /\ event'.dev = d /\ CheckForUpdate(d, v)) =>
              LET s == SessionIn(updates', heap', d)
                  latest == getLatestVersion(versions)
                  greater == /\ Len(versions) > 0
                             /\ compareVersions(v, latest.version) < 0
              IN  /\ s.status = "idle"
                  /\ s.deviceId = d
                  /\ s.currentVersion = v
                  /\ greater => s.targetVersion = latest.version
                  /\ ~greater => s.targetVersion = NoVersion
                  /\ event'.kind = "return" /\ event'.op = "checkForUpdate"
                  /\ event'.fw = (IF Len(versions) = 0 THEN NoFirmware ELSE latest)
      ]_vars

\* checkForUpdate('d', '1.0.0') has found 1.0.1
C14_Witness ==
    /\ event.kind = "return" /\ event.op = "checkForUpdate" /\ event.fw = fwGood
    /\ LET s == SessionIn(updates, heap, event.dev)
       IN  /\ s.status = "idle"
           /\ s.currentVersion = V3(1, 0, 0) /\ s.targetVersion = V3(1, 0, 1)

(***************************************************************************)
(* compareVersions on version strings of integer segments.                 *)
(***************************************************************************)
\* the strings of 1 .. MaxSegments segments, each a number of SegmentValues
IntegerVersions ==
    UNION {[1 .. n -> {Seg(k) : k \in SegmentValues}] : n \in 1 .. MaxSegments}

CompareInit ==
    /\ Constructed
    /\ query \in [op : {"input"},
                  a : IntegerVersions, b : IntegerVersions, c : IntegerVersions]

\* the string v + '-beta': the suffix follows the digits of the last segment
WithSuffix(v) == [v EXCEPT ![Len(v)].rest = "-beta"]

\* compareVersions is called on the pairs of the three strings, and on the
\* first with a suffix
CompareVersions ==
    /\ query.op = "input"
    /\ query' = [op |-> "compareVersions",
                 a |-> query.a, b |-> query.b, c |-> query.c,
                 aa |-> compareVersions(query.a, query.a),
                 ab |-> compareVersions(query.a, query.b),
                 ba |-> compareVersions(query.b, query.a),
                 bc |-> compareVersions(query.b, query.c),
                 ac |-> compareVersions(query.a, query.c),
                 sa |-> compareVersions(WithSuffix(query.a), query.a),
                 sb |-> compareVersions(WithSuffix(query.a), query.b)]
    /\ UNCHANGED << versions, downloadCache, updates, heap, calls, fetches, ops, event >>

CompareNext == CompareVersions

CompareSpec == CompareInit /\ [][CompareNext]_vars

\* the integer segments of v, padded with zeros to n segments
Padded(v, n) == [i \in 1 .. n |-> IF i <= Len(v) THEN v[i].digits ELSE 0]

\* the reference comparison: the first unequal segment of the padded strings decides
ReferenceCompare(a, b) ==
    LET n == IF Len(a) >= Len(b) THEN Len(a) ELSE Len(b)
        pa == Padded(a, n)
        pb == Padded(b, n)
        differ == {i \in 1 .. n : pa[i] # pb[i]}
    IN  IF differ = {} THEN 0
        ELSE LET k == CHOOSE i \in differ : \A j \in differ : i <= j
             IN  IF pa[k] < pb[k] THEN -1 ELSE 1

\* C15: on strings of dot-separated non-negative integer segments (numbers
\* that Number() represents exactly), compareVersions(a, b) is the reference
\* comparison of the zero-padded segment lists.
C15_CompareIsReference ==
    query.op = "compareVersions" =>
        /\ query.ab = ReferenceCompare(query.a, query.b)
        /\ query.ba = ReferenceCompare(query.b, query.a)
        /\ query.ac = ReferenceCompare(query.a, query.c)

\* compareVersions('1.1', '1.1.0') = 0 and compareVersions('1.1', '1.1.1') < 0
C15_Witness ==
    /\ query.op = "compareVersions"
    /\ query.a = << Seg(1), Seg(1) >>
    /\ query.b = V3(1, 1, 0) /\ query.ab = 0
    /\ query.c = V3(1, 1, 1) /\ query.ac = -1

\* C16: compareVersions is a total order up to trailing zero segments:
\* reflexive, antisymmetric in sign, transitive, and 0 exactly for strings
\* with the same segments after zero-padding.
C16_CompareIsTotalOrder ==
    query.op = "compareVersions" =>
        LET n == MaxSegments
        IN  /\ query.aa = 0
            /\ query.ab \in {-1, 0, 1}
            /\ query.ab = 0 - query.ba
            /\ (query.ab <= 0 /\ query.bc <= 0) => query.ac <= 0
            /\ (query.ab = 0) <=> (Padded(query.a, n) = Padded(query.b, n))

\* a chain a < b < c of strings of different lengths
C16_Witness ==
    /\ query.op = "compareVersions"
    /\ Len(query.a) < Len(query.b) /\ Len(query.c) < Len(query.b)
    /\ query.ab = -1 /\ query.bc = -1 /\ query.ac = -1 /\ query.ba = 1

(***************************************************************************)
(* The catalog on its own: registerVersion, needsUpdate, getLatestVersion. *)
(***************************************************************************)
\* 0.9.0: no releaseDate
fwUndated ==
    [version |-> V3(0, 9, 0), releaseDate |-> Undefined, fileSize |-> Undefined,
     fileUrl |-> "u1", checksum |-> NoChecksum, signature |-> NoSignature]

\* 0.5.0: a releaseDate before 1970, getTime() is negative
fwOld ==
    [version |-> V3(0, 5, 0), releaseDate |-> -5, fileSize |-> Undefined,
     fileUrl |-> "u1", checksum |-> NoChecksum, signature |-> NoSignature]

\* 1.0.1 published again: the record of fwGood with a later releaseDate
fwGoodAgain == [fwGood EXCEPT !.releaseDate = 3]

CatalogFirmwares == Firmwares \cup {fwUndated, fwOld, fwGoodAgain}

\* the targetVersion arguments: none, registered identifiers, one never registered
TargetVersions == {NoVersion, V3(1, 0, 1), V3(2, 0, 0), V3(3, 0, 0)}

CatalogInit ==
    /\ Constructed
    /\ query = NoQuery

\* registerVersion(fw.version, fw); the catalog holds at most MaxVersions
\* identifiers
CatalogRegister(fw) ==
    /\ Len(versions) < MaxVersions \/ HasKey(versions, fw.version)
    /\ RegisterVersion(fw)
    /\ query' = [op |-> "registerVersion", id |-> fw.version, firmware |-> fw]
    /\ UNCHANGED ops

CallNeedsUpdate(currentVersion, targetVersion) ==
    /\ query' = [op |-> "needsUpdate", cur |-> currentVersion, target |-> targetVersion,
                 value |-> needsUpdate(versions, currentVersion, targetVersion)]
    /\ UNCHANGED << versions, downloadCache, updates, heap, calls, fetches, ops, event >>

\* getAllVersions copies the values into a new array, which is what sort reorders
CallGetLatestVersion ==
    /\ query' = [op |-> "getLatestVersion", value |-> getLatestVersion(versions)]
    /\ UNCHANGED << versions, downloadCache, updates, heap, calls, fetches, ops, event >>

CallGetUpgradeableVersions(currentVersion) ==
    /\ query' = [op |-> "getUpgradeableVersions", cur |-> currentVersion,
                 value |-> getUpgradeableVersions(versions, currentVersion)]
    /\ UNCHANGED << versions, downloadCache, updates, heap, calls, fetches, ops, event >>

CallGetVersion(id) ==
    /\ query' = [op |-> "getVersion", id |-> id, value |-> getVersion(versions, id)]
    /\ UNCHANGED << versions, downloadCache, updates, heap, calls, fetches, ops, event >>

\* needsUpdate(currentVersion) and getUpgradeableVersions(currentVersion) on
\* the same catalog
CallNeedsUpdateAndUpgradeable(currentVersion) ==
    /\ query' = [op |-> "needsUpdate, getUpgradeableVersions", cur |-> currentVersion,
                 value |-> needsUpdate(versions, currentVersion, NoVersion),
                 list |-> getUpgradeableVersions(versions, currentVersion)]
    /\ UNCHANGED << versions, downloadCache, updates, heap, calls, fetches, ops, event >>

CatalogNext ==
    \/ \E v \in CurrentVersions : CallNeedsUpdateAndUpgradeable(v)
    \/ \E fw \in CatalogFirmwares : CatalogRegister(fw)
    \/ \E v \in CurrentVersions, t \in TargetVersions : CallNeedsUpdate(v, t)
    \/ CallGetLatestVersion
    \/ \E v \in CurrentVersions : CallGetUpgradeableVersions(v)
    \/ \E id \in TargetVersions \ {NoVersion} : CallGetVersion(id)

CatalogSpec == CatalogInit /\ [][CatalogNext]_vars

\* the records registered under identifier id
RegisteredUnder(id) == {versions[i].fw : i \in {j \in 1 .. Len(versions) : versions[j].key = id}}

\* C17: needsUpdate(current, target) resolves latestVersion to the record
\* registered under target when a target is given and to getLatestVersion()
\* otherwise; with a record resolved it returns that record and needsUpdate =
\* (compareVersions(current, record.version) < 0); with none (target not
\* registered, or empty catalog) it returns needsUpdate = false and no record.
C17_NeedsUpdateResolves ==
    [][(query' # query /\ query'.op = "needsUpdate") =>
          LET given == query'.target # NoVersion
              resolved == IF given THEN RegisteredUnder(query'.target)
                          ELSE IF Len(versions) = 0 THEN {}
                          ELSE {getLatestVersion(versions)}
              value == query'.value
          IN  /\ resolved = {} =>
                    /\ value.needsUpdate = FALSE
                    /\ value.latestVersion = NoFirmware
              /\ \A r \in resolved :
                    /\ value.latestVersion = r
                    /\ value.needsUpdate = (compareVersions(query'.cur, r.version) < 0)
      ]_vars

\* needsUpdate('1.0.0', '2.0.0') has resolved the record registered under
\* 2.0.0 while the latest by release date is 1.0.1
C17_Witness ==
    /\ query.op = "needsUpdate"
    /\ query.cur = V3(1, 0, 0) /\ query.target = V3(2, 0, 0)
    /\ query.value = [needsUpdate |-> TRUE, latestVersion |-> fwSigned]
    /\ Len(versions) > 0 /\ getLatestVersion(versions) = fwGood

\* the claim's order of release timestamps: a record without one is earlier
\* than every record with one
ReleasedBefore(r1, r2) ==
    \/ r1.releaseDate = Undefined /\ r2.releaseDate # Undefined
    \/ /\ r1.releaseDate # Undefined /\ r2.releaseDate # Undefined
       /\ r1.releaseDate < r2.releaseDate

\* C18: getLatestVersion() returns null on an empty catalog and otherwise
\* the first record, in catalog order, among those of maximal release
\* timestamp, a record without a timestamp being earlier than every record
\* with one; the call leaves the catalog as it is.
C18_LatestIsMaxTimestamp ==
    [][(query' # query /\ query'.op = "getLatestVersion") =>
          /\ versions' = versions
          /\ Len(versions) = 0 => query'.value = NoFirmware
          /\ Len(versions) > 0 =>
                \E i \in 1 .. Len(versions) :
                    /\ query'.value = versions[i].fw
                    /\ \A j \in 1 .. Len(versions) :
                           ~ReleasedBefore(versions[i].fw, versions[j].fw)
                    /\ \A j \in 1 .. (i - 1) :
                           ReleasedBefore(versions[j].fw, versions[i].fw)
      ]_vars

(***************************************************************************)
(* The verifier on its own: verifyIntegrity, calculateChecksum and         *)
(* verifyChecksum.                                                         *)
(***************************************************************************)
ByteValues == {1, 2, 3}
Buffers == UNION {[1 .. n -> ByteValues] : n \in 0 .. MaxBytes}

\* checksum fields: none, digests of two buffers, a string that is no digest
DeclaredChecksums ==
    {NoChecksum, [alg |-> "text", of |-> << >>, upper |-> FALSE]}
    \cup {[alg |-> a, of |-> b, upper |-> u] :
              a \in {"md5", "sha256"}, b \in {GoodBody, OtherBody}, u \in BOOLEAN}

\* signature fields: none, base64 text, text with another character
DeclaredSignatures == {NoSignature, << "A", "b" >>, << "A", "!" >>}

IntegrityInputs ==
    [op : {"input"}, method : {"verifyIntegrity"}, data : Buffers,
     fileSize : {Undefined} \cup (0 .. MaxBytes),
     checksum : DeclaredChecksums, signature : DeclaredSignatures]

ChecksumInputs ==
    [op : {"input"}, method : {"verifyChecksum"}, data : Buffers, other : Buffers,
     algorithm : {"md5", "sha256"}, upper : BOOLEAN]

\* the public key of the signer, a PEM string
PublicKey == "-----BEGIN PUBLIC KEY-----"

\* signatures given to verifySignature: '', base64 text (two of them), text
\* with another character
SignatureStrings == {<< >>, << "A", "b" >>, << "0", "=" >>, << "A", "!" >>}

SignatureInputs ==
    [op : {"input"}, method : {"verifySignature"}, data : Buffers,
     signature : SignatureStrings, publicKey : {NoString, PublicKey}]

VerifierInit ==
    /\ Constructed
    /\ query \in IntegrityInputs \cup ChecksumInputs \cup SignatureInputs

CallVerifyIntegrity ==
    /\ query.op = "input" /\ query.method = "verifyIntegrity"
    /\ LET firmwareVersion == [NoFirmware EXCEPT !.version = V3(1, 0, 1),
                                                 !.fileSize = query.fileSize,
                                                 !.checksum = query.checksum,
                                                 !.signature = query.signature]
       IN  query' = [op |-> "verifyIntegrity", data |-> query.data,
                     fw |-> firmwareVersion,
                     value |-> verifyIntegrity(query.data, firmwareVersion)]
    /\ UNCHANGED << versions, downloadCache, updates, heap, calls, fetches, ops, event >>

\* the digest of data is calculated, given in lower or upper case, and
\* verified against data and against the other buffer
CallVerifyChecksum ==
    /\ query.op = "input" /\ query.method = "verifyChecksum"
    /\ LET digest == calculateChecksum(query.data, query.algorithm)
           expected == IF query.upper THEN toUpperCase(digest) ELSE digest
       IN  query' = [op |-> "verifyChecksum", data |-> query.data, other |-> query.other,
                     expected |-> expected,
                     same |-> verifyChecksum(query.data, expected),
                     changed |-> verifyChecksum(query.other, expected)]
    /\ UNCHANGED << versions, downloadCache, updates, heap, calls, fetches, ops, event >>

CallVerifySignature ==
    /\ query.op = "input" /\ query.method = "verifySignature"
    /\ query' = [op |-> "verifySignature", data |-> query.data,
                 signature |-> query.signature, publicKey |-> query.publicKey,
                 value |-> verifySignature(query.data, query.signature, query.publicKey)]
    /\ UNCHANGED << versions, downloadCache, updates, heap, calls, fetches, ops, event >>

VerifierNext ==
    \/ CallVerifyIntegrity
    \/ CallVerifyChecksum
    \/ CallVerifySignature

VerifierSpec == VerifierInit /\ [][VerifierNext]_vars

\* 1 for a check that is declared and fails, else 0
Fails(declared, passes) == IF declared /\ ~passes THEN 1 ELSE 0

\* C19: verifyIntegrity returns one error string per declared check (size,
\* checksum, signature) that fails, whatever the other checks do, and valid
\* exactly when there is none; a wrong declared size together with a wrong
\* checksum gives 2 errors.
C19_OneErrorPerFailedCheck ==
    query.op = "verifyIntegrity" =>
        LET fw == query.fw
            size == Fails(fw.fileSize # Undefined, Len(query.data) = fw.fileSize)
            sum == Fails(fw.checksum # NoChecksum, verifyChecksum(query.data, fw.checksum))
            sig == Fails(fw.signature # NoSignature, isValidSignatureFormat(fw.signature))
        IN  /\ Len(query.value.errors) = size + sum + sig
            /\ query.value.valid = (Len(query.value.errors) = 0)
            /\ (size = 1 /\ sum = 1 /\ sig = 0) => Len(query.value.errors) = 2

\* b1 and b2 have the same length and differ in exactly one byte
OneByteDiffers(b1, b2) ==
    /\ Len(b1) = Len(b2)
    /\ Cardinality({i \in 1 .. Len(b1) : b1[i] # b2[i]}) = 1

\* C20: verifyChecksum(B, calculateChecksum(B, algorithm)) is true for md5 and
\* sha256, also with the digest in upper case, and false for a buffer that
\* differs from B in one byte (the digest taken as collision free).
C20_ChecksumRoundTrip ==
    query.op = "verifyChecksum" =>
        /\ query.same = TRUE
        /\ OneByteDiffers(query.data, query.other) => query.changed = FALSE

\* an upper-case MD5 digest of a buffer, verified against it and against the
\* buffer with its last byte changed
C20_Witness ==
    /\ query.op = "verifyChecksum"
    /\ query.expected = [alg |-> "md5", of |-> GoodBody, upper |-> TRUE]
    /\ query.data = GoodBody /\ query.other = << 1, 3 >>
    /\ query.same = TRUE /\ query.changed = FALSE

\* The holder of the private key of PublicKey has signed one buffer: the
\* RSA-SHA256 signature of GoodBody is 'Ab'. No other signature verifies.
Verifies(data, signature, publicKey) ==
    publicKey = PublicKey /\ data = GoodBody /\ signature = << "A", "b" >>

\* C21: with a public key verifySignature returns true exactly for a valid
\* signature of the data under that key and false for every other one;
\* without a key it returns true exactly for a non-empty signature of base64
\* characters.
C21_VerifySignature ==
    query.op = "verifySignature" =>
        IF query.publicKey # NoString
        THEN query.value = Verifies(query.data, query.signature, query.publicKey)
        ELSE query.value = (/\ query.signature # << >>
                            /\ \A i \in 1 .. Len(query.signature) :
                                   query.signature[i] \in Base64Alphabet)

(***************************************************************************)
(* The downloader on its own: download(url, onProgress) called directly,   *)
(* with an onProgress that records what it is given, and clearCache.       *)
(***************************************************************************)
\* calls of download and clearCache
MaxDownloads == 3

\* the responses, and one with an empty body
DownloadResponses == Responses \cup {[body |-> << >>, total |-> 0]}

\* the message of the AbortError a fetch rejects with
AbortMessage == << "This operation was aborted" >>

DownloaderInit ==
    /\ Constructed
    /\ query = NoQuery

\* what a finished download call gave its caller
Returned(url, fetched, data, reports) ==
    [op |-> "download", url |-> url, kind |-> "return", fetched |-> fetched,
     data |-> data, msg |-> NoError, reports |-> reports]

Thrown(url, msg, reports) ==
    [op |-> "download", url |-> url, kind |-> "throw", fetched |-> TRUE,
     data |-> << >>, msg |-> msg, reports |-> reports]

\* download() up to its first await: the cached buffer with one progress
\* report, or fetchWithProgress arms the timer and sends the fetch
Download(c, url) ==
    LET cached == CacheGet(url)
        call == [FreeCall EXCEPT !.op = "download",
                                 !.fw = [NoFirmware EXCEPT !.fileUrl = url]]
    IN  /\ FreeSlot(c)
        /\ ops < MaxDownloads /\ ops' = ops + 1
        /\ IF cached.present
           THEN /\ query' = Returned(url, FALSE, cached.data,
                                << [downloaded |-> Len(cached.data),
                                    total |-> Len(cached.data),
                                    percentage |-> 100] >>)
                /\ event' = ReturnsData("download", "", cached.data)
                /\ UNCHANGED << calls, fetches >>
           ELSE /\ fetches' = [fetches EXCEPT ![url] = @ + 1]
                /\ calls' = [calls EXCEPT ![c] = [call EXCEPT !.pc = "fetching",
                                                              !.timer = "armed"]]
                /\ event' = NoEvent
                /\ UNCHANGED query
        /\ UNCHANGED << versions, downloadCache, updates, heap >>

\* reader.read() yields a chunk of k bytes; onProgress is called when the
\* content-length is known
ReportChunk(c, k) ==
    LET call == calls[c]
        downloaded == call.downloaded + k
    IN  /\ call.pc = "reading"
        /\ downloaded <= Len(call.body)
        /\ calls' = [calls EXCEPT ![c] =
               [@ EXCEPT !.downloaded = downloaded,
                         !.reports = IF call.total > 0
                                     THEN Append(@, [downloaded |-> downloaded,
                                                     total |-> call.total,
                                                     percentage |-> Percentage(downloaded, call.total)])
                                     ELSE @]]
        /\ event' = NoEvent
        /\ UNCHANGED << versions, downloadCache, updates, heap, fetches, ops, query >>

\* reader.read() yields done: the buffer is cached and returned
DownloadReturn(c) ==
    LET call == calls[c]
    IN  /\ call.pc = "reading"
        /\ call.downloaded = Len(call.body)
        /\ downloadCache' = [downloadCache EXCEPT ![call.fw.fileUrl] =
                                 [present |-> TRUE, data |-> call.body]]
        /\ calls' = [calls EXCEPT ![c] = FreeCall]
        /\ query' = Returned(call.fw.fileUrl, TRUE, call.body, call.reports)
        /\ event' = ReturnsData("download", "", call.body)
        /\ UNCHANGED << versions, updates, heap, fetches, ops >>

\* download's catch: the error is wrapped and thrown
DownloadCatch(c, msg) ==
    /\ calls' = [calls EXCEPT ![c] = FreeCall]
    /\ query' = Thrown(calls[c].fw.fileUrl, DownloadFailed(msg), calls[c].reports)
    /\ event' = Throws("download", "", DownloadFailed(msg))
    /\ UNCHANGED << versions, downloadCache, updates, heap, fetches, ops >>

\* the fetch fails (network error, HTTP status) or a read fails
DownloadFail(c, msg) ==
    /\ \/ calls[c].pc = "fetching" /\ msg \in FetchErrors
       \/ calls[c].pc = "reading" /\ msg = ReadError
    /\ DownloadCatch(c, msg)

\* the timeout timer fires while it is pending: controller.abort() rejects
\* the fetch
Timeout(c) ==
    /\ calls[c].timer = "armed"
    /\ DownloadCatch(c, AbortMessage)

DownloaderNext ==
    \/ \E c \in Slots, url \in Urls : Download(c, url)
    \/ ops < MaxDownloads /\ ops' = ops + 1 /\ ClearCache /\ UNCHANGED query
    \/ \E c \in Slots, r \in DownloadResponses : FetchResponse(c, r.body, r.total) /\ Continues
    \/ \E c \in Slots : ReportChunk(c, 1)
    \/ \E c \in Slots : DownloadReturn(c)
    \/ \E c \in Slots, msg \in FetchErrors \cup {ReadError} : DownloadFail(c, msg)
    \/ \E c \in Slots : Timeout(c)

DownloaderSpec == DownloaderInit /\ [][DownloaderNext]_vars

\* C22: a download call ends once its timeout timer fires: while the call
\* waits for the response headers or reads the response body, the timer that
\* aborts the fetch is pending; and a call sends at most one fetch, the one it
\* sends when it starts.
C22_TimeoutCoversFetch ==
    [][/\ \A c \in Slots :
              calls'[c].pc \in {"fetching", "reading"} => calls'[c].timer = "armed"
       /\ \A u \in Urls :
              fetches'[u] # fetches[u] =>
                  /\ fetches'[u] = fetches[u] + 1
                  /\ \E c \in Slots : /\ calls[c].pc = "free"
                                      /\ calls'[c].pc = "fetching"
                                      /\ calls'[c].fw.fileUrl = u]_vars

(***************************************************************************)
(* Properties of the orchestrator (Spec), continued.                       *)
(***************************************************************************)
\* C23 as claimed: a device that has a session keeps one in every step but a
\* clearUpdate of that device, and a Failed session that is not cleared is
\* still Failed with the same error message after the step.
C23_FailedUntilCleared ==
    [][\A d \in Devices :
          updates[d] # 0 =>
              /\ updates'[d] = 0 => ClearUpdate(d)
              /\ (heap[updates[d]].status = "failed" /\ updates'[d] # 0) =>
                     /\ heap'[updates'[d]].status = "failed"
                     /\ heap'[updates'[d]].error = heap[updates[d]].error
      ]_vars

\* C23 amended: only clearUpdate of the device removes its session, and a
\* Failed session keeps its status and error message in every step but the
\* start of a new call on the device and a step of a downloadFirmware run
\* that is in flight on it.
C23_FailedUntilClearedOrWritten ==
    [][\A d \in Devices :
          updates[d] # 0 =>
              /\ updates'[d] = 0 => ClearUpdate(d)
              /\ (/\ heap[updates[d]].status = "failed"
                  /\ updates'[d] # 0
                  /\ ~(StartsCallFor(d) \/ RunsOn(d))) =>
                     /\ heap'[updates'[d]].status = "failed"
                     /\ heap'[updates'[d]].error = heap[updates[d]].error
      ]_vars

\* a session failed by a download error is still there, unchanged, after a
\* cancelUpdate of its device
C23_Witness ==
    \E d \in Devices :
        /\ updates[d] # 0
        /\ heap[updates[d]].status = "failed"
        /\ heap[updates[d]].error \in {DownloadFailed(msg) : msg \in FetchErrors \cup {ReadError}}
        /\ event.op = "cancelUpdate" /\ event.dev = d

(***************************************************************************)
(* Properties of compareVersions (CompareSpec), continued.                 *)
(***************************************************************************)
\* C24: a '-suffix' is ignored: compareVersions(v + '-beta', v) is 0 and
\* compareVersions(v + '-beta', w) is compareVersions(v, w), for all strings v
\* and w of integer segments.
C24_SuffixIgnored ==
    query.op = "compareVersions" =>
        /\ query.sa = 0
        /\ query.sb = query.ab

(***************************************************************************)
(* Properties of the catalog (CatalogSpec), continued.                     *)
(***************************************************************************)
\* C25: getUpgradeableVersions(current) returns the registered records r
\* with compareVersions(current, r.version) < 0 and no others, each once, in
\* the order of the catalog; the empty list when there is none.
C25_UpgradeableInCatalogOrder ==
    [][(query' # query /\ query'.op = "getUpgradeableVersions") =>
          LET value == query'.value
              greater == {i \in 1 .. Len(versions) :
                             compareVersions(query'.cur, versions[i].fw.version) < 0}
          IN  /\ versions' = versions
              /\ Len(value) = Cardinality(greater)
              /\ \A i \in greater :
                     value[Cardinality({j \in greater : j <= i})] = versions[i].fw
      ]_vars

\* getUpgradeableVersions('1.0.0') on the catalog 1.0.1, 0.5.0, 2.0.0 has
\* returned the first and the third record
C25_Witness ==
    /\ query.op = "getUpgradeableVersions" /\ query.cur = V3(1, 0, 0)
    /\ getAllVersions(versions) = << fwGood, fwOld, fwSigned >>
    /\ query.value = << fwGood, fwSigned >>

\* the entries of catalog vs under identifiers other than id, in order
OtherEntries(vs, id) == SelectSeq(vs, LAMBDA e : e.key # id)

\* C26: registerVersion is an idempotent upsert: after registerVersion(id, r)
\* getVersion(id) returns r and the catalog has exactly one entry for id;
\* registering the record the identifier already holds leaves the catalog as
\* it is; the entries of the other identifiers stay as they are, in their
\* order; and no other operation of the catalog changes it.
C26_RegisterIsUpsert ==
    [][/\ \A fw \in CatalogFirmwares :
              CatalogRegister(fw) =>
                  /\ getVersion(versions', fw.version) = fw
                  /\ Cardinality({i \in 1 .. Len(versions') :
                                     versions'[i].key = fw.version}) = 1
                  /\ OtherEntries(versions', fw.version) = OtherEntries(versions, fw.version)
                  /\ getVersion(versions, fw.version) = fw => versions' = versions
       /\ versions' # versions => \E fw \in CatalogFirmwares : CatalogRegister(fw)
      ]_vars

\* 1.0.1 was registered, then 2.0.0, then 1.0.1 again with another record:
\* the identifier kept its place before 2.0.0 and holds the record
\* registered last
C26_Witness ==
    /\ query = [op |-> "registerVersion", id |-> V3(1, 0, 1), firmware |-> fwGoodAgain]
    /\ versions = << [key |-> V3(1, 0, 1), fw |-> fwGoodAgain],
                     [key |-> V3(2, 0, 0), fw |-> fwSigned] >>

(***************************************************************************)
(* Properties of the downloader (DownloaderSpec), continued.               *)
(***************************************************************************)
\* the step is a call of clearCache
ClearCacheCalled == ops' = ops + 1 /\ ClearCache

\* C27: a URL is in the cache from a successful fetch of it until clearCache
\* is called. A download of a cached URL returns the cached bytes, sends no
\* fetch and calls onProgress once, with percentage 100 and downloaded = total
\* = the length of the cached bytes. clearCache empties the cache, and a
\* download of a URL that is not cached sends a fetch.
C27_CacheHitReportsOnce ==
    [][/\ \A c \in Slots, url \in Urls :
              Download(c, url) =>
                  IF downloadCache[url].present
                  THEN /\ query'.op = "download" /\ query'.kind = "return"
                       /\ query'.data = downloadCache[url].data
                       /\ query'.reports = << [downloaded |-> Len(downloadCache[url].data),
                                               total |-> Len(downloadCache[url].data),
                                               percentage |-> 100] >>
                       /\ fetches' = fetches /\ calls' = calls
                  ELSE /\ fetches'[url] = fetches[url] + 1
                       /\ calls'[c].pc = "fetching"
       /\ \A url \in Urls :
              /\ (~downloadCache[url].present /\ downloadCache'[url].present) =>
                     /\ query'.op = "download" /\ query'.kind = "return"
                     /\ query'.fetched /\ query'.url = url
                     /\ downloadCache'[url].data = query'.data
              /\ (downloadCache[url].present /\ ~downloadCache'[url].present) =>
                     ClearCacheCalled
       /\ ClearCacheCalled => \A url \in Urls : ~downloadCache'[url].present
      ]_vars

\* u1 was fetched once and cached; a second download of u1 has returned the
\* two cached bytes with one report and without a fetch
C27_Witness ==
    /\ query = Returned("u1", FALSE, GoodBody,
                        << [downloaded |-> 2, total |-> 2, percentage |-> 100] >>)
    /\ fetches["u1"] = 1
    /\ downloadCache["u1"] = [present |-> TRUE, data |-> GoodBody]

\* C28: when a download that fetched returns, onProgress has been called and
\* the last call had percentage 100, whatever the response: content-length
\* absent, body empty, content-length different from the bytes received.
C28_LastReportIs100 ==
    (query.op = "download" /\ query.kind = "return" /\ query.fetched) =>
        /\ Len(query.reports) > 0
        /\ query.reports[Len(query.reports)].percentage = 100

(***************************************************************************)
(* Properties of the orchestrator (Spec): progress.                        *)
(***************************************************************************)
\* C29: the progress of a session, when set, is a number from 0 to 100,
\* whatever the downloader reports, a content-length below the number of
\* bytes received included.
C29_ProgressInRange ==
    \A d \in Devices :
        (updates[d] # 0 /\ heap[updates[d]].progress # Undefined) =>
            heap[updates[d]].progress \in 0 .. 100

\* C30 as claimed: a Verifying session has progress 90, a Completed session
\* has progress 100 and completedAt set, in every state.
C30_CheckpointProgress ==
    \A d \in Devices :
        updates[d] # 0 =>
            /\ heap[updates[d]].status = "verifying" => heap[updates[d]].progress = 90
            /\ heap[updates[d]].status = "completed" =>
                   /\ heap[updates[d]].progress = 100
                   /\ heap[updates[d]].completedAt # NoDate

\* a downloadFirmware run on session object o reads a chunk in this step
ReportsOn(o) ==
    \E c \in Slots : /\ calls[c].pc = "reading" /\ calls[c].info = o
                     /\ calls'[c].downloaded # calls[c].downloaded

\* the progress the code sets together with the status
Checkpoint(status) == IF status = "verifying" THEN 90 ELSE 100

\* C30 amended: a Completed session object has completedAt set; a step that
\* makes a session object Verifying or Completed sets its progress to 90 or
\* 100; and the progress of an object that is Verifying or Completed is
\* changed to another value only by a progress report of another
\* downloadFirmware run on the same object that is still reading its response.
C30_CheckpointUntilOverlappingReport ==
    [][\A o \in Objs :
          /\ heap'[o].status = "completed" => heap'[o].completedAt # NoDate
          /\ (/\ heap'[o].status \in {"verifying", "completed"}
              /\ heap'[o].progress # Checkpoint(heap'[o].status)
              /\ heap'[o] # heap[o]) =>
                 /\ heap'[o].status = heap[o].status
                 /\ ReportsOn(o)
      ]_vars

\* two downloadFirmware runs on one device share the session object: one has
\* set Verifying and progress 90, the other is still reading its response
C30_Witness ==
    \E d \in Devices, c1, c2 \in Slots :
        /\ calls[c1].pc = "verifying" /\ calls[c2].pc = "reading"
        /\ calls[c1].dev = d /\ calls[c2].dev = d
        /\ calls[c1].info = updates[d] /\ calls[c2].info = updates[d]
        /\ heap[updates[d]].status = "verifying"
        /\ heap[updates[d]].progress = 90

(***************************************************************************)
(* Properties of the orchestrator (Spec): the stages of one call.          *)
(***************************************************************************)
\* the moves of a call from one await to the next: download is entered from
\* the start of the call only, verifyIntegrity from the returned download
\* only, and no stage is entered again
CallMoves ==
    {<< "free", "checked" >>, << "free", "fetching" >>, << "free", "downloaded" >>,
     << "checked", "fetching" >>, << "checked", "downloaded" >>, << "checked", "free" >>,
     << "fetching", "reading" >>, << "fetching", "free" >>,
     << "reading", "reading" >>, << "reading", "downloaded" >>, << "reading", "free" >>,
     << "downloaded", "verifying" >>,
     << "verifying", "free" >>}

\* C31: a downloadFirmware call calls download once and verifyIntegrity once,
\* the latter only after download has returned; a failed download or
\* verification ends the call, nothing is tried again; and each progress
\* report of the download (one per chunk when the content-length is known,
\* one of 100 on a cache hit) stores the call's session with the reported
\* percentage as its progress.
C31_OneDownloadOneVerify ==
    [][\A c \in Slots :
          calls'[c] # calls[c] =>
              /\ << calls[c].pc, calls'[c].pc >> \in CallMoves
              /\ calls'[c].pc = "fetching" =>
                     fetches'[calls'[c].fw.fileUrl] = fetches[calls'[c].fw.fileUrl] + 1
              /\ calls'[c].pc # "fetching" => fetches' = fetches
              /\ (calls[c].pc = "reading" /\ calls'[c].pc = "reading" /\ calls[c].total > 0) =>
                     /\ updates'[calls[c].dev] = calls[c].info
                     /\ heap'[calls[c].info].progress =
                            Percentage(calls'[c].downloaded, calls[c].total)
              /\ (calls[c].pc \in {"free", "checked"} /\ calls'[c].pc = "downloaded") =>
                     /\ updates'[calls'[c].dev] = calls'[c].info
                     /\ heap'[calls'[c].info].progress = 100
      ]_vars

\* a call has read the first of two declared bytes and its session shows 50
C31_Witness ==
    \E c \in Slots :
        /\ calls[c].pc = "reading" /\ calls[c].total = 2 /\ calls[c].downloaded = 1
        /\ updates[calls[c].dev] = calls[c].info
        /\ heap[calls[c].info].progress = 50

\* C32: two overlapping downloadFirmware calls for one device work on one
\* session record. The call that starts last sets targetVersion; a call that
\* finishes sets the status from the verification of its own artifact,
\* Completed or Failed, stores the record as the device's session and leaves
\* targetVersion as it finds it. So the session can end Completed under the
\* targetVersion of a call that failed, or Failed under that of one that
\* succeeded.
C32_LastFinishSetsStatus ==
    [][\A c \in Slots :
          /\ (calls[c].pc = "verifying" /\ calls'[c].pc = "free") =>
                 LET o == calls[c].info
                 IN  /\ updates'[calls[c].dev] = o
                     /\ heap'[o].targetVersion = heap[o].targetVersion
                     /\ heap'[o].status =
                            IF verifyIntegrity(calls[c].body, calls[c].fw).valid
                            THEN "completed" ELSE "failed"
          /\ (calls[c].pc \in {"free", "checked"} /\ calls'[c].pc \in {"fetching", "downloaded"}) =>
                 /\ updates[calls'[c].dev] # 0 => calls'[c].info = updates[calls'[c].dev]
                 /\ heap'[calls'[c].info].targetVersion = calls'[c].fw.version
      ]_vars

\* downloadFirmware(d, 1.0.1) and then downloadFirmware(d, 2.0.0) overlapped:
\* the artifact of 2.0.0 failed its signature check, the run for 1.0.1
\* finished last and returned its bytes; the session is Completed with
\* targetVersion 2.0.0 and the error of the failed run
C32_Witness ==
    \E d \in Devices :
        /\ updates[d] # 0
        /\ heap[updates[d]].status = "completed"
        /\ heap[updates[d]].targetVersion = fwSigned.version
        /\ heap[updates[d]].error =
               << "Firmware verification failed: " >> \o Join(verifyIntegrity(OtherBody, fwSigned).errors)
        /\ event = ReturnsData("downloadFirmware", d, GoodBody)

(***************************************************************************)
(* The orchestrator with a caller that polls getUpdateStatus and keeps     *)
(* what it was given.                                                      *)
(***************************************************************************)
\* getUpdateStatus(d) returns the object stored in the Map (0: null); seen is
\* what the caller reads in it when it gets it. The object the caller held
\* before is dropped.
GetUpdateStatus(d) ==
    /\ query' = [op |-> "getUpdateStatus", dev |-> d, ref |-> updates[d],
                 seen |-> getUpdateStatus(d)]
    /\ heap' = [o \in Objs |->
                   IF \/ \E e \in Devices : updates[e] = o
                      \/ \E c \in Slots : calls[c].info = o
                   THEN heap[o] ELSE FreeObj]
    /\ UNCHANGED << versions, downloadCache, updates, calls, fetches, ops, event >>

PollingNext ==
    \/ Next
    \/ \E d \in Devices : GetUpdateStatus(d)

PollingSpec == Init /\ [][PollingNext]_vars

\* C33: what getUpdateStatus returned is a snapshot: its status, progress and
\* error stay what they were when it was returned, whatever happens to the
\* device's session afterwards.
C33_StatusIsSnapshot ==
    (query.op = "getUpdateStatus" /\ query.ref # 0) =>
        /\ heap[query.ref].status = query.seen.status
        /\ heap[query.ref].progress = query.seen.progress
        /\ heap[query.ref].error = query.seen.error

(***************************************************************************)
(* Properties of the verifier (VerifierSpec), continued.                   *)
(***************************************************************************)
\* C34: verifyIntegrity reports a file-size error exactly when a fileSize is
\* declared, 0 included, and differs from the length of the buffer.
C34_SizeErrorIffDeclaredAndDifferent ==
    query.op = "verifyIntegrity" =>
        ((\E i \in 1 .. Len(query.value.errors) : query.value.errors[i] = "File size mismatch")
            <=> (query.fw.fileSize # Undefined /\ Len(query.data) # query.fw.fileSize))

(***************************************************************************)
(* Properties of the catalog (CatalogSpec): decision and upgrade list.     *)
(***************************************************************************)
\* C35 as claimed: needsUpdate(current).needsUpdate is true whenever
\* getUpgradeableVersions(current) is not empty.
C35_NeedsUpdateWhenUpgradeable ==
    query.op = "needsUpdate, getUpgradeableVersions" =>
        (Len(query.list) > 0 => query.value.needsUpdate)

\* C35 amended: needsUpdate(current).needsUpdate is true exactly when the
\* record needsUpdate resolves, the one getLatestVersion() gives, is in
\* getUpgradeableVersions(current); when it is true the list is not empty.
C35_NeedsUpdateIffLatestUpgradeable ==
    query.op = "needsUpdate, getUpgradeableVersions" =>
        /\ query.value.needsUpdate =
               (\E i \in 1 .. Len(query.list) : query.list[i] = query.value.latestVersion)
        /\ query.value.needsUpdate => Len(query.list) > 0

\* 2.0.0 was released before 1.0.1: for a device on 1.0.1 the upgrade list
\* holds 2.0.0 while needsUpdate resolves 1.0.1 and says false
C35_Witness ==
    /\ query.op = "needsUpdate, getUpgradeableVersions"
    /\ query.cur = V3(1, 0, 1)
    /\ query.list = << fwSigned >>
    /\ query.value = [needsUpdate |-> FALSE, latestVersion |-> fwGood]

(***************************************************************************)
(* Properties of the orchestrator (Spec): fields left by earlier runs.     *)
(***************************************************************************)
\* C36: a Completed session has no error message, and a session that is not
\* Completed has no completedAt.
C36_NoStaleErrorOrCompletedAt ==
    \A d \in Devices :
        updates[d] # 0 =>
            /\ heap[updates[d]].status = "completed" => heap[updates[d]].error = NoError
            /\ heap[updates[d]].status # "completed" => heap[updates[d]].completedAt = NoDate

(***************************************************************************)
(* Properties of the orchestrator (Spec): sessions and calls in flight.    *)
(***************************************************************************)
\* C37: the session checkForUpdate(d, v) has stored is not replaced by the
\* record of a downloadFirmware that was in flight: the currentVersion that
\* getUpdateStatus(d) shows changes only in a step of a checkForUpdate for d
\* (clearUpdate removes the session).
C37_CheckedSessionStays ==
    [][\A d \in Devices :
          (/\ updates[d] # 0 /\ updates'[d] # 0
           /\ heap'[updates'[d]].currentVersion # heap[updates[d]].currentVersion) =>
              ChecksFor(d)
      ]_vars

\* C38: the cache of a URL changes only when a fetch of it succeeds, which
\* stores the fetched bytes whatever their verification will say, and when
\* clearCache is called; a failed fetch and a failed verification leave it.
\* A downloadFirmware that starts while its URL is cached sends no fetch and
\* gets the cached bytes, and a call fails exactly with the errors that
\* verifyIntegrity gives for its bytes and its version record: a retry with
\* the same record on the same cached bytes fails with the same errors.
C38_CacheIndependentOfVerification ==
    [][/\ \A u \in Urls :
              downloadCache'[u] # downloadCache[u] =>
                  \/ ClearCacheCalled
                  \/ \E c \in Slots : /\ calls[c].pc = "reading" /\ calls'[c].pc = "downloaded"
                                      /\ calls[c].fw.fileUrl = u
       /\ \A c \in Slots :
              /\ (calls[c].pc = "reading" /\ calls'[c].pc = "downloaded") =>
                     downloadCache'[calls[c].fw.fileUrl] =
                         [present |-> TRUE, data |-> calls[c].body]
              /\ (calls[c].pc \in {"free", "checked"}
                  /\ calls'[c].pc \in {"fetching", "downloaded"}) =>
                     IF downloadCache[calls'[c].fw.fileUrl].present
                     THEN /\ calls'[c].pc = "downloaded"
                          /\ calls'[c].body = downloadCache[calls'[c].fw.fileUrl].data
                          /\ fetches' = fetches
                     ELSE calls'[c].pc = "fetching"
              /\ (calls[c].pc = "verifying" /\ calls'[c].pc = "free") =>
                     LET verification == verifyIntegrity(calls[c].body, calls[c].fw)
                     IN  IF verification.valid
                         THEN event' = ReturnsData(calls[c].op, calls[c].dev, calls[c].body)
                         ELSE event' = Throws(calls[c].op, calls[c].dev,
                                              << "Firmware verification failed: " >>
                                                  \o Join(verification.errors))
      ]_vars

\* the bytes fetched for 1.0.1 failed verification and stayed cached; a
\* second downloadFirmware for the device has got them from the cache,
\* without a second fetch
C38_Witness ==
    \E c \in Slots :
        /\ calls[c].pc = "downloaded" /\ calls[c].fw = fwGood
        /\ calls[c].body = OtherBody /\ calls[c].timer = "none"
        /\ downloadCache["u1"] = [present |-> TRUE, data |-> OtherBody]
        /\ fetches["u1"] = 1
        /\ heap[calls[c].info].error =
               << "Firmware verification failed: " >>
                   \o Join(verifyIntegrity(OtherBody, fwGood).errors)

\* the step belongs to an operation invoked with device identifier d: a call
\* that starts, a step of a call in flight, cancelUpdate or clearUpdate
OperationOn(d) ==
    \/ StartsCallFor(d)
    \/ RunsOn(d)
    \/ event'.op = "cancelUpdate" /\ event'.dev = d
    \/ ClearUpdate(d)

\* C39: the session of a device changes only in steps of operations invoked
\* with its own identifier; operations on another device, downloads of the
\* same URL included, and operations without a device leave it as it is.
C39_SessionsIsolated ==
    [][\A d \in Devices :
          SessionIn(updates', heap', d) # SessionIn(updates, heap, d) => OperationOn(d)
      ]_vars

\* two devices download the same URL at the same time: the first has read one
\* of two declared bytes and shows 50, the session of the second is still at 0
C39_Witness ==
    \E c1, c2 \in Slots :
        /\ calls[c1].dev # calls[c2].dev
        /\ calls[c1].pc = "reading" /\ calls[c2].pc = "reading"
        /\ calls[c1].fw.fileUrl = calls[c2].fw.fileUrl
        /\ calls[c1].total = 2 /\ calls[c1].downloaded = 1
        /\ calls[c2].total = 2 /\ calls[c2].downloaded = 0
        /\ SessionIn(updates, heap, calls[c1].dev).progress = 50
        /\ SessionIn(updates, heap, calls[c2].dev).progress = 0
        /\ SessionIn(updates, heap, calls[c2].dev).status = "downloading"

====
